---- MODULE Spec2Model ----
(***************************************************************************)
(* User-Power: the user store (db/models.py, db/dals.py), the permission   *)
(* check (api/actions/user.py) and the request handlers (api/handlers.py). *)
(*                                                                         *)
(* Every DAL call runs in a transaction of its own (session.begin()), so a *)
(* request is a sequence of atomic store accesses:                         *)
(*   1. get_current_user_from_token  reads the acting user by email,       *)
(*   2. <handler>_read               reads the target and decides,         *)
(*   3. <handler>_write              runs the conditional UPDATE.          *)
(* Requests of different slots interleave between these steps.             *)
(*                                                                         *)
(* Three specifications share the store and the request slots:             *)
(*   Spec       the user routes, called with a valid bearer token of any   *)
(*              subject;                                                   *)
(*   AuthSpec   POST /login/token and the routes called with the tokens    *)
(*              the logins returned (hashing.py, api/login_handler.py,     *)
(*              api/actions/auth.py);                                      *)
(*   TokenSpec  create_access_token called with any expires_delta, the     *)
(*              clock, and the validation of the tokens it made            *)
(*              (security.py).                                             *)
(***************************************************************************)
EXTENDS Integers, FiniteSets, TLC

\* ---------------------------------------------------------------- bounds
NumSeed == 2
MaxRegistrations == 1
NReq == 2
\* The logins AuthSpec follows.
NLogin == 2
\* The last tick of the clock, the largest expires_delta (in minutes) a caller
\* passes and the tokens that are made, in TokenSpec.
MaxTime == 3
MaxDelta == 2
MaxTokens == 1

MaxUsers == NumSeed + MaxRegistrations
UserIds == 1..MaxUsers
\* An id no row ever has (uuid4 of a row that was never inserted).
UnknownId == MaxUsers + 1
\* EmailStr values, numbered.
Emails == 1..MaxUsers
\* The names a request body may carry (the seeded rows are all named "Ann").
Names == {"Bob"}
Slots == 1..NReq

\* ------------------------------------------------------------ db/models.py
ROLE_PORTAL_USER == "ROLE_PORTAL_USER"
ROLE_PORTAL_ADMIN == "ROLE_PORTAL_ADMIN"
ROLE_PORTAL_SUPERADMIN == "ROLE_PORTAL_SUPERADMIN"
PortalRole == {ROLE_PORTAL_USER, ROLE_PORTAL_ADMIN, ROLE_PORTAL_SUPERADMIN}

\* Python's None (a missing row, an unset local, a function falling off its end).
None == [none |-> TRUE]

\* A dict with no keys ({} in the handlers).
EmptyDict == << >>

is_superadmin(user) == ROLE_PORTAL_SUPERADMIN \in user.roles

is_admin(user) == ROLE_PORTAL_ADMIN \in user.roles

\* Mutant: the admin role is not added to the returned set.
enrich_without_admin_role(user) ==
    IF ~is_admin(user) THEN user.roles ELSE None

enrich_admin_roles_by_admin_role(user) ==
    IF ~is_admin(user) THEN user.roles \cup {ROLE_PORTAL_ADMIN} ELSE None

\* Mutant: the filter keeps the admin role and drops the others.
remove_admin_privileges_inverted(user) ==
    IF is_admin(user) THEN {role \in user.roles : role = ROLE_PORTAL_ADMIN} ELSE None

remove_admin_privileges_from_model(user) ==
    IF is_admin(user) THEN {role \in user.roles : role # ROLE_PORTAL_ADMIN} ELSE None

\* ---------------------------------------------------------------- hashing.py
\* The password every account of the model was registered with, and the
\* passwords a login form may carry.
Passwords == {"pw"}
Attempts == {"pw", "bad"}

\* bcrypt through passlib: the hash is opaque and is not the plaintext; verify
\* accepts exactly the plaintext the hash was made from (the salt is left out).
get_password_hash(password) == [bcrypt |-> password]

verify_password(plain_password, hashed_password) ==
    hashed_password = [bcrypt |-> plain_password]

\* ------------------------------------------------------- config, security.py
SECRET_KEY == "SECRET_KEY"
\* The configured lifetime of an access token; the clock of the model ticks in
\* minutes, the unit timedelta(minutes=...) is built from.
ACCESS_TOKEN_EXPIRE_MINUTES == 2

\* datetime.timedelta(minutes=n).
timedelta(minutes) == [minutes |-> minutes]

\* The expires_delta values a caller of create_access_token may pass.
ExpiresDeltas == {None} \cup {timedelta(n) : n \in 0..MaxDelta}

\* jose.jwt.encode: the claims, signed with the key (the signature stands for
\* the key it was made with).  exp is kept in whole ticks.
jwt_encode(claims, key) == [claims |-> claims, key |-> key]

JWTError == [error |-> "JWTError"]

\* jose.jwt.decode at time t: a signature made with another key raises JWTError;
\* an exp claim raises ExpiredSignatureError (a JWTError) when exp < now, so a
\* token is still decoded in the tick its exp names.
jwt_decode(token, key, t) ==
    IF token.key # key THEN JWTError
    ELSE IF "exp" \in DOMAIN token.claims /\ token.claims.exp < t THEN JWTError
    ELSE token.claims

\* create_access_token called at time t (security.py:19-40).  `if expires_delta`
\* is a truth test: None is false, and so is timedelta(0).
create_access_token(data, expires_delta, t) ==
    LET truthy == expires_delta # None /\ expires_delta.minutes # 0
        expire == IF truthy
                  THEN t + expires_delta.minutes
                  ELSE t + timedelta(ACCESS_TOKEN_EXPIRE_MINUTES).minutes
        to_encode == [k \in DOMAIN data \cup {"exp"} |->
                        IF k = "exp" THEN expire ELSE data[k]]
    IN  jwt_encode(to_encode, SECRET_KEY)

VARIABLES users, req, created, now, issued, login

vars == <<users, req, created, now, issued, login>>

\* What the routes of handlers.py leave alone: the clock, the tokens made so
\* far and the answers of the logins.
auth_vars == <<now, issued, login>>

\* The ORM object a SELECT returns.  The handlers and the permission check read
\* only user_id and roles of it (and email at login), so the snapshot keeps those.
User(us, u) == [user_id |-> u, roles |-> us[u].roles]

\* -------------------------------------------------------------- db/dals.py
\* Each DAL operator gives [users: the table afterwards, rows: the rows the
\* statement returned (fetchone() is None iff rows = {}), error: IntegrityError].

\* users.email is UNIQUE (db/models.py:34).
email_unique(us) ==
    \A u, v \in DOMAIN us : us[u].email = us[v].email => u = v

DAL_create_user(us, name, email, hashed_password, roles) ==
    LET free == {u \in UserIds : u \notin DOMAIN us}
        new_id == CHOOSE u \in free : \A v \in free : u <= v
        row == [email |-> email, name |-> name, is_active |-> TRUE,
                hashed_password |-> hashed_password, roles |-> roles]
        after == [u \in DOMAIN us \cup {new_id} |-> IF u = new_id THEN row ELSE us[u]]
    IN  IF email_unique(after)
        THEN [users |-> after, rows |-> {new_id}, error |-> FALSE]
        ELSE [users |-> us, rows |-> {}, error |-> TRUE]

\* Mutant: the UPDATE is not scoped to active rows.
DAL_delete_user_unscoped(us, user_id) ==
    LET hit == {u \in DOMAIN us : u = user_id}
    IN  [users |-> [u \in DOMAIN us |->
                      IF u \in hit THEN [us[u] EXCEPT !.is_active = FALSE] ELSE us[u]],
         rows |-> hit,
         error |-> FALSE]

DAL_delete_user(us, user_id) ==
    LET hit == {u \in DOMAIN us : u = user_id /\ us[u].is_active = TRUE}
    IN  [users |-> [u \in DOMAIN us |->
                      IF u \in hit THEN [us[u] EXCEPT !.is_active = FALSE] ELSE us[u]],
         rows |-> hit,
         error |-> FALSE]

DAL_get_user_by_id(us, user_id) == {u \in DOMAIN us : u = user_id}

DAL_get_user_by_email(us, email) == {u \in DOMAIN us : us[u].email = email}

DAL_update_user(us, user_id, kwargs) ==
    LET hit == {u \in DOMAIN us : u = user_id /\ us[u].is_active = TRUE}
        after == [u \in DOMAIN us |->
                    IF u \in hit
                    THEN [f \in DOMAIN us[u] |->
                            IF f \in DOMAIN kwargs THEN kwargs[f] ELSE us[u][f]]
                    ELSE us[u]]
    IN  IF email_unique(after)
        THEN [users |-> after, rows |-> hit, error |-> FALSE]
        ELSE [users |-> us, rows |-> {}, error |-> TRUE]

\* ----------------------------------------------------- api/actions/user.py
\* Mutant: no 406 test of the acting user.
check_user_permissions_no_406(target_user, current_user) ==
    IF target_user.user_id # current_user.user_id
    THEN IF {ROLE_PORTAL_ADMIN, ROLE_PORTAL_SUPERADMIN} \cap current_user.roles = {}
         THEN "False"
         ELSE IF ROLE_PORTAL_SUPERADMIN \in target_user.roles
                 /\ ROLE_PORTAL_ADMIN \in current_user.roles
         THEN "False"
         ELSE IF ROLE_PORTAL_ADMIN \in target_user.roles
                 /\ ROLE_PORTAL_ADMIN \in current_user.roles
         THEN "False"
         ELSE "True"
    ELSE "True"

\* Mutant: no test of an admin acting on an admin.
check_user_permissions_no_admin_on_admin(target_user, current_user) ==
    IF ROLE_PORTAL_SUPERADMIN \in current_user.roles THEN "Raise406"
    ELSE IF target_user.user_id # current_user.user_id
    THEN IF {ROLE_PORTAL_ADMIN, ROLE_PORTAL_SUPERADMIN} \cap current_user.roles = {}
         THEN "False"
         ELSE IF ROLE_PORTAL_SUPERADMIN \in target_user.roles
                 /\ ROLE_PORTAL_ADMIN \in current_user.roles
         THEN "False"
         ELSE "True"
    ELSE "True"

\* Mutant: no test that the acting user is an admin or a superadmin.
check_user_permissions_no_role_test(target_user, current_user) ==
    IF ROLE_PORTAL_SUPERADMIN \in current_user.roles THEN "Raise406"
    ELSE IF target_user.user_id # current_user.user_id
    THEN IF ROLE_PORTAL_SUPERADMIN \in target_user.roles
            /\ ROLE_PORTAL_ADMIN \in current_user.roles
         THEN "False"
         ELSE IF ROLE_PORTAL_ADMIN \in target_user.roles
                 /\ ROLE_PORTAL_ADMIN \in current_user.roles
         THEN "False"
         ELSE "True"
    ELSE "True"

\* "Raise406" is the HTTPException(406) of the first test; "True"/"False" the
\* returned bool.
check_user_permissions(target_user, current_user) ==
    IF ROLE_PORTAL_SUPERADMIN \in current_user.roles THEN "Raise406"
    ELSE IF target_user.user_id # current_user.user_id
    THEN IF {ROLE_PORTAL_ADMIN, ROLE_PORTAL_SUPERADMIN} \cap current_user.roles = {}
         THEN "False"
         ELSE IF ROLE_PORTAL_SUPERADMIN \in target_user.roles
                 /\ ROLE_PORTAL_ADMIN \in current_user.roles
         THEN "False"
         ELSE IF ROLE_PORTAL_ADMIN \in target_user.roles
                 /\ ROLE_PORTAL_ADMIN \in current_user.roles
         THEN "False"
         ELSE "True"
    ELSE "True"

\* ---------------------------------------------------------- api/schemas.py
\* UpdatedUserRequest after model_dump(exclude_none=True): the supplied fields
\* among name and email (surname is handled exactly as name).
UpdatedUserRequest ==
    {EmptyDict}
    \cup {[name |-> n] : n \in Names}
    \cup {[email |-> e] : e \in Emails}

\* updated_user_id: uuid.UUID is required and not Optional: built from None the
\* model raises pydantic's ValidationError inside the handler, which no handler
\* catches (the framework answers 500).
UpdatedUserResponse(updated_user_id) ==
    IF updated_user_id = {}
    THEN [status |-> 500, ret |-> {}]
    ELSE [status |-> 200, ret |-> updated_user_id]

\* ------------------------------------------------------------- requests
\* A request slot: the handler's parameters and locals, its position and its
\* response (status 0: none yet; ret: the id in the 200 response body); token
\* is the bearer token it came with and sub that token's subject.
IdleReq ==
    [pc |-> "idle", op |-> "none", token |-> None, sub |-> 0, user_id |-> 0,
     body |-> EmptyDict, current_user |-> None, target |-> None,
     params |-> EmptyDict, status |-> 0, ret |-> {}]

\* The role sets a row of the seeded table may hold.
SeedRoles ==
    {{ROLE_PORTAL_USER},
     {ROLE_PORTAL_USER, ROLE_PORTAL_ADMIN},
     {ROLE_PORTAL_USER, ROLE_PORTAL_SUPERADMIN},
     {ROLE_PORTAL_USER, ROLE_PORTAL_ADMIN, ROLE_PORTAL_SUPERADMIN}}

Logins == 1..NLogin

\* A login: the form's username and password, its position and its answer
\* (status, detail of the HTTPException, body of the 200 response).  cause
\* records why authenticate_user gave no user.
IdleLogin ==
    [pc |-> "idle", username |-> 0, password |-> "", cause |-> "",
     status |-> 0, detail |-> "", body |-> None]

\* The table when the service starts: NumSeed active rows with distinct emails,
\* admins and superadmins among them (no request creates a superadmin).
Init ==
    /\ \E rs \in [1..NumSeed -> SeedRoles] :
         users = [u \in 1..NumSeed |->
                    [email |-> u, name |-> "Ann", is_active |-> TRUE,
                     hashed_password |-> get_password_hash("pw"), roles |-> rs[u]]]
    /\ req = [r \in Slots |-> IdleReq]
    /\ created = [status |-> 0, ret |-> {}]
    /\ now = 0
    /\ issued = {}
    /\ login = [l \in Logins |-> IdleLogin]

\* Slots are taken in order (a slot is a name for the k-th request to arrive).
MayArrive(r) ==
    /\ req[r].pc = "idle"
    /\ \A q \in Slots : q < r => req[q].pc # "idle"

\* Mutant: the new account is given the admin role as well.
_create_new_user_as_admin(us, body) ==
    DAL_create_user(us, body.name, body.email, get_password_hash(body.password),
                    {ROLE_PORTAL_USER, ROLE_PORTAL_ADMIN})

\* _create_new_user (api/actions/user.py:20-48).
_create_new_user(us, body) ==
    DAL_create_user(us, body.name, body.email, get_password_hash(body.password),
                    {ROLE_PORTAL_USER})

\* POST /user: one transaction; IntegrityError -> 503.
create_user ==
    /\ Cardinality(DOMAIN users) < MaxUsers
    /\ \E name \in Names, email \in Emails, password \in Passwords :
         LET res == _create_new_user(users,
                        [name |-> name, email |-> email, password |-> password])
         IN  /\ users' = res.users
             /\ created' = [status |-> IF res.error THEN 503 ELSE 200,
                            ret |-> res.rows]
    /\ UNCHANGED <<req, auth_vars>>

\* The dependency of every authenticated route (api/actions/auth.py:65-96),
\* called with the bearer token of the request: the token is decoded (a bad
\* signature, an expired token or a missing sub: 401) and its subject is looked
\* up by email (no row: 401).  The route's own parameters are first read by its
\* handler, in the next step.
get_current_user_from_token(r, token) ==
    /\ MayArrive(r)
    /\ LET payload == jwt_decode(token, SECRET_KEY, now)
           rows == IF payload = JWTError THEN {}
                   ELSE IF "sub" \notin DOMAIN payload THEN {}
                   ELSE DAL_get_user_by_email(users, payload.sub)
           base == [IdleReq EXCEPT !.op = "auth", !.sub = token.claims.sub,
                                   !.token = token]
       IN  req' = [req EXCEPT ![r] =
                     IF rows = {}
                     THEN [base EXCEPT !.pc = "done", !.status = 401]
                     ELSE [base EXCEPT !.pc = "handler",
                              !.current_user = User(users, CHOOSE u \in rows : TRUE)]]
    /\ UNCHANGED <<users, created, auth_vars>>

\* A request of Spec: its bearer token is signed and not expired, and its
\* subject is any email (whatever login returned it).
authenticated_request(r) ==
    \E sub \in Emails :
        get_current_user_from_token(r,
            jwt_encode([sub |-> sub, exp |-> now], SECRET_KEY))

\* The handler is called with the route's parameters.
Called(q, op, user_id, body) ==
    [q EXCEPT !.op = op, !.user_id = user_id, !.body = body]

\* The handler answers (returns its response model or raises).
Answer(q, status, ret) ==
    [q EXCEPT !.pc = "done", !.status = status, !.ret = ret]

\* The handler binds the row it fetched to its local (user_for_deletion, ...).
Bind(q, target) == [q EXCEPT !.target = target]

\* The handler goes on to its store write.
Proceed(q, params) ==
    [q EXCEPT !.pc = "write", !.params = params]

\* The row a SELECT by id found, as the ORM object.
Fetched(us, rows) == User(us, CHOOSE u \in rows : TRUE)

\* DELETE /user up to the permission check (handlers.py:78-87): the slot after it.
delete_user_check(us, q) ==
    LET rows == DAL_get_user_by_id(us, q.user_id)
    IN  IF rows = {} THEN Answer(q, 404, {})
        ELSE LET user_for_deletion == Fetched(us, rows)
                 perm == check_user_permissions(user_for_deletion, q.current_user)
                 q1 == Bind(q, user_for_deletion)
             IN  IF perm = "Raise406" THEN Answer(q1, 406, {})
                 ELSE IF perm = "False" THEN Answer(q1, 403, {})
                 ELSE Proceed(q1, EmptyDict)

delete_user_read(r) ==
    /\ req[r].pc = "handler"
    /\ \E user_id \in UserIds \cup {UnknownId} :
         req' = [req EXCEPT ![r] =
                   delete_user_check(users, Called(req[r], "delete", user_id, EmptyDict))]
    /\ UNCHANGED <<users, created, auth_vars>>

\* DELETE /user, the store write and the response (handlers.py:88-93).
delete_user_write(r) ==
    /\ req[r].pc = "write"
    /\ req[r].op = "delete"
    /\ LET res == DAL_delete_user(users, req[r].user_id)
       IN  /\ users' = res.users
           /\ req' = [req EXCEPT ![r] =
                        IF res.rows = {} THEN Answer(req[r], 404, {})
                        ELSE Answer(req[r], 200, res.rows)]
    /\ UNCHANGED <<created, auth_vars>>

\* Mutant: the handler does not test that the acting user is a superadmin.
grant_admin_privilege_check_no_superadmin_test(us, q) ==
    LET current_user == q.current_user
        rows == DAL_get_user_by_id(us, q.user_id)
    IN  IF current_user.user_id = q.user_id THEN Answer(q, 400, {})
        ELSE IF rows = {} THEN Answer(q, 500, {})
        ELSE LET user_for_promotion == Fetched(us, rows)
                 q1 == Bind(q, user_for_promotion)
             IN  IF is_admin(user_for_promotion) \/ is_superadmin(user_for_promotion)
                 THEN Answer(q1, 409, {})
                 ELSE Proceed(q1,
                        [roles |-> enrich_admin_roles_by_admin_role(user_for_promotion)])

\* PATCH /user/admin_privilege up to the call of _update_user
\* (handlers.py:118-136).  A missing row makes user_for_promotion None, and
\* None.is_admin raises AttributeError before the 404 test is reached: 500.
grant_admin_privilege_check(us, q) ==
    LET current_user == q.current_user
        rows == DAL_get_user_by_id(us, q.user_id)
    IN  IF ~is_superadmin(current_user) THEN Answer(q, 403, {})
        ELSE IF current_user.user_id = q.user_id THEN Answer(q, 400, {})
        ELSE IF rows = {} THEN Answer(q, 500, {})
        ELSE LET user_for_promotion == Fetched(us, rows)
                 q1 == Bind(q, user_for_promotion)
             IN  IF is_admin(user_for_promotion) \/ is_superadmin(user_for_promotion)
                 THEN Answer(q1, 409, {})
                 ELSE Proceed(q1,
                        [roles |-> enrich_admin_roles_by_admin_role(user_for_promotion)])

grant_admin_privilege_read(r) ==
    /\ req[r].pc = "handler"
    /\ \E user_id \in UserIds \cup {UnknownId} :
         req' = [req EXCEPT ![r] =
                   grant_admin_privilege_check(users,
                       Called(req[r], "grant", user_id, EmptyDict))]
    /\ UNCHANGED <<users, created, auth_vars>>

\* The tail of both admin_privilege handlers (handlers.py:137-144, 187-194):
\* _update_user, IntegrityError -> 503, then the response model.
admin_privilege_update(us, q) ==
    LET res == DAL_update_user(us, q.user_id, q.params)
        resp == UpdatedUserResponse(res.rows)
    IN  [users |-> res.users,
         req |-> IF res.error THEN Answer(q, 503, {})
                 ELSE Answer(q, resp.status, resp.ret)]

grant_admin_privilege_write(r) ==
    /\ req[r].pc = "write"
    /\ req[r].op = "grant"
    /\ LET out == admin_privilege_update(users, req[r])
       IN  /\ users' = out.users
           /\ req' = [req EXCEPT ![r] = out.req]
    /\ UNCHANGED <<created, auth_vars>>

\* DELETE /user/admin_privilege up to the call of _update_user
\* (handlers.py:169-186); a missing row: AttributeError as in grant.
revoke_admin_privilege_check(us, q) ==
    LET current_user == q.current_user
        rows == DAL_get_user_by_id(us, q.user_id)
    IN  IF ~is_superadmin(current_user) THEN Answer(q, 403, {})
        ELSE IF current_user.user_id = q.user_id THEN Answer(q, 400, {})
        ELSE IF rows = {} THEN Answer(q, 500, {})
        ELSE LET user_for_revoke_admin_privileges == Fetched(us, rows)
                 q1 == Bind(q, user_for_revoke_admin_privileges)
             IN  IF ~is_admin(user_for_revoke_admin_privileges)
                 THEN Answer(q1, 409, {})
                 ELSE Proceed(q1,
                        [roles |-> remove_admin_privileges_from_model(
                                      user_for_revoke_admin_privileges)])

revoke_admin_privilege_read(r) ==
    /\ req[r].pc = "handler"
    /\ \E user_id \in UserIds \cup {UnknownId} :
         req' = [req EXCEPT ![r] =
                   revoke_admin_privilege_check(users,
                       Called(req[r], "revoke", user_id, EmptyDict))]
    /\ UNCHANGED <<users, created, auth_vars>>

revoke_admin_privilege_write(r) ==
    /\ req[r].pc = "write"
    /\ req[r].op = "revoke"
    /\ LET out == admin_privilege_update(users, req[r])
       IN  /\ users' = out.users
           /\ req' = [req EXCEPT ![r] = out.req]
    /\ UNCHANGED <<created, auth_vars>>

\* PATCH /user up to the call of _update_user (handlers.py:245-258).
update_user_by_id_check(us, q) ==
    LET updated_users_params == q.body
        rows == DAL_get_user_by_id(us, q.user_id)
    IN  IF updated_users_params = EmptyDict THEN Answer(q, 422, {})
        ELSE IF rows = {} THEN Answer(q, 404, {})
        ELSE LET user_for_update == Fetched(us, rows)
                 perm == check_user_permissions(user_for_update, q.current_user)
                 q1 == Bind(q, user_for_update)
             IN  IF perm = "Raise406" THEN Answer(q1, 406, {})
                 ELSE IF perm = "False" THEN Answer(q1, 403, {})
                 ELSE Proceed(q1, updated_users_params)

update_user_by_id_read(r) ==
    /\ req[r].pc = "handler"
    /\ \E user_id \in UserIds \cup {UnknownId}, body \in UpdatedUserRequest :
         req' = [req EXCEPT ![r] =
                   update_user_by_id_check(users,
                       Called(req[r], "update", user_id, body))]
    /\ UNCHANGED <<users, created, auth_vars>>

\* PATCH /user, the store write and the response (handlers.py:260-266).  The
\* except branch only logs: the return then reads updated_user_id, which was
\* never bound (UnboundLocalError, 500).
update_user_by_id_update(us, q) ==
    LET res == DAL_update_user(us, q.user_id, q.params)
        resp == UpdatedUserResponse(res.rows)
    IN  [users |-> res.users,
         req |-> IF res.error THEN Answer(q, 500, {})
                 ELSE Answer(q, resp.status, resp.ret)]

update_user_by_id_write(r) ==
    /\ req[r].pc = "write"
    /\ req[r].op = "update"
    /\ LET out == update_user_by_id_update(users, req[r])
       IN  /\ users' = out.users
           /\ req' = [req EXCEPT ![r] = out.req]
    /\ UNCHANGED <<created, auth_vars>>

\* ------------------------------- api/actions/auth.py, api/login_handler.py
\* Mutant: the password is not verified.
authenticate_user_no_verify(us, email, password) ==
    DAL_get_user_by_email(us, email)

\* authenticate_user (auth.py:43-62): the rows it returns ({} is None).
authenticate_user(us, email, password) ==
    LET rows == DAL_get_user_by_email(us, email)
    IN  IF rows = {} THEN {}
        ELSE IF ~verify_password(password, us[CHOOSE u \in rows : TRUE].hashed_password)
        THEN {}
        ELSE rows

\* The answer of POST /login/token at time t (login_handler.py:47-58).
login_for_access_token_answer(us, username, password, t) ==
    LET user == authenticate_user(us, username, password)
    IN  IF user = {}
        THEN [status |-> 401, detail |-> "Incorrect username or password",
              body |-> None]
        ELSE LET email == us[CHOOSE u \in user : TRUE].email
                 access_token_expires == timedelta(ACCESS_TOKEN_EXPIRE_MINUTES)
                 access_token ==
                     create_access_token([sub |-> email], access_token_expires, t)
             IN  [status |-> 200, detail |-> "",
                  body |-> [access_token |-> access_token, token_type |-> "bearer"]]

\* Why a login with this form finds no user, if it does not.
FailureCause(us, username, password) ==
    LET rows == DAL_get_user_by_email(us, username)
    IN  IF rows = {} THEN "unknown email"
        ELSE IF ~verify_password(password,
                                 us[CHOOSE u \in rows : TRUE].hashed_password)
        THEN "wrong password"
        ELSE "none"

\* A token that was made, with the account it was made for (0: none), the time
\* it was made at and the expires_delta it was made with.
Issued(token, us, t, expires_delta) ==
    LET rows == DAL_get_user_by_email(us, token.claims.sub)
    IN  [token |-> token,
         user_id |-> IF rows = {} THEN 0 ELSE CHOOSE u \in rows : TRUE,
         iat |-> t,
         expires_delta |-> expires_delta]

\* POST /login/token: one read of the store, then the token.
login_for_access_token(l) ==
    /\ login[l].pc = "idle"
    /\ \A m \in Logins : m < l => login[m].pc # "idle"
    /\ \E username \in Emails, password \in Attempts :
         LET resp == login_for_access_token_answer(users, username, password, now)
         IN  /\ login' = [login EXCEPT ![l] =
                            [pc |-> "done", username |-> username,
                             password |-> password,
                             cause |-> FailureCause(users, username, password),
                             status |-> resp.status, detail |-> resp.detail,
                             body |-> resp.body]]
             /\ issued' = IF resp.status = 200
                          THEN issued \cup
                               {Issued(resp.body.access_token, users, now,
                                       timedelta(ACCESS_TOKEN_EXPIRE_MINUTES))}
                          ELSE issued
    /\ UNCHANGED <<users, req, created, now>>

\* A token signed with a key that is not the service's.
Forged == jwt_encode([sub |-> 1, exp |-> MaxTime + MaxDelta], "another key")

\* A request of AuthSpec and TokenSpec: its bearer token is one that was made
\* before, or a forged one.
bearer_request(r) ==
    \E token \in {tk.token : tk \in issued} \cup {Forged} :
        get_current_user_from_token(r, token)

\* Another caller of create_access_token, with an expires_delta of its choice.
create_access_token_call ==
    /\ Cardinality(issued) < MaxTokens
    /\ \E sub \in Emails, expires_delta \in ExpiresDeltas :
         issued' = issued \cup
             {Issued(create_access_token([sub |-> sub], expires_delta, now),
                     users, now, expires_delta)}
    /\ UNCHANGED <<users, req, created, now, login>>

\* A minute passes.
Tick ==
    /\ now < MaxTime
    /\ now' = now + 1
    /\ UNCHANGED <<users, req, created, issued, login>>

Next ==
    \/ create_user
    \/ \E r \in Slots :
        \/ authenticated_request(r)
        \/ delete_user_read(r)
        \/ delete_user_write(r)
        \/ grant_admin_privilege_read(r)
        \/ grant_admin_privilege_write(r)
        \/ revoke_admin_privilege_read(r)
        \/ revoke_admin_privilege_write(r)
        \/ update_user_by_id_read(r)
        \/ update_user_by_id_write(r)

Spec == Init /\ [][Next]_vars

AuthNext ==
    \/ create_user
    \/ \E l \in Logins : login_for_access_token(l)
    \/ \E r \in Slots :
        \/ bearer_request(r)
        \/ update_user_by_id_read(r)
        \/ update_user_by_id_write(r)

AuthSpec == Init /\ [][AuthNext]_vars

TokenNext ==
    \/ create_access_token_call
    \/ Tick
    \/ \E r \in Slots : bearer_request(r)

TokenSpec == Init /\ [][TokenNext]_vars

\* ------------------------------------------------------------ the claims
USER_ONLY == {ROLE_PORTAL_USER}
USER_ADMIN == {ROLE_PORTAL_USER, ROLE_PORTAL_ADMIN}
PRIVILEGED == {ROLE_PORTAL_ADMIN, ROLE_PORTAL_SUPERADMIN}

\* Slot r's handler runs up to its store write or its early answer in this step.
Handles(r) == req[r].pc = "handler" /\ req'[r].pc # "handler"

\* Slot r's handler runs its store write and answers in this step.
Writes(r) == req[r].pc = "write" /\ req'[r].pc = "done"

\* Slot r's handler answered in this step without going on to a write, and the
\* step left the table as it was.
Refused(r, status) ==
    /\ req'[r].pc = "done"
    /\ req'[r].status = status
    /\ req'[r].ret = {}
    /\ users' = users

\* Slot r is a deactivate, or an update_fields with at least one field.
Modifies(q) ==
    \/ q.op = "delete"
    \/ q.op = "update" /\ q.body # EmptyDict

\* C1 (as claimed): a request of a superadmin to deactivate or update a
\* different, existing, active user that is no superadmin is answered 200 with
\* the target's id.
C1_SuperadminMayModifyOthers ==
    \A r \in Slots :
        LET q == req[r]
        IN  (/\ q.pc = "done"
             /\ Modifies(q)
             /\ is_superadmin(q.current_user)
             /\ q.user_id \in DOMAIN users
             /\ q.user_id # q.current_user.user_id
             /\ users[q.user_id].is_active
             /\ ~is_superadmin(users[q.user_id]))
            => q.status = 200 /\ q.ret = {q.user_id}

\* C2 (as claimed): an update_fields with a non-empty payload by an active user
\* on its own id is answered 200 with that id, whatever roles the user holds.
C2_SelfUpdateAlwaysAllowed ==
    \A r \in Slots :
        LET q == req[r]
        IN  (/\ q.pc = "done"
             /\ q.op = "update"
             /\ q.body # EmptyDict
             /\ q.user_id = q.current_user.user_id
             /\ users[q.user_id].is_active)
            => q.status = 200 /\ q.ret = {q.user_id}

\* C3: a deactivate request of a superadmin on its own id is answered 406 (not
\* 403), writes nothing, and the superadmin's row stays active.
C3_SuperadminNeverDeactivatesItself ==
    [][\A r \in Slots :
         (/\ Handles(r)
          /\ req'[r].op = "delete"
          /\ is_superadmin(req[r].current_user)
          /\ req'[r].user_id = req[r].current_user.user_id)
         => /\ Refused(r, 406)
            /\ users'[req'[r].user_id].is_active = TRUE]_vars

C3_Witness ==
    \E r \in Slots :
        /\ req[r].pc = "done"
        /\ req[r].op = "delete"
        /\ is_superadmin(req[r].current_user)
        /\ req[r].user_id = req[r].current_user.user_id
        /\ req[r].status = 406
        /\ users[req[r].user_id].is_active = TRUE

\* C4: a deactivate or update_fields request (with a field to update) of an
\* acting user that holds ADMIN and not SUPERADMIN, on a different user whose
\* row holds ADMIN or SUPERADMIN when the handler reads it, is answered 403
\* and writes nothing.
C4_AdminDeniedOnAdminsAndSuperadmins ==
    [][\A r \in Slots :
         (/\ Handles(r)
          /\ Modifies(req'[r])
          /\ is_admin(req[r].current_user)
          /\ ~is_superadmin(req[r].current_user)
          /\ req'[r].user_id \in DOMAIN users
          /\ req'[r].user_id # req[r].current_user.user_id
          /\ users[req'[r].user_id].roles \cap PRIVILEGED # {})
         => Refused(r, 403)]_vars

C4_Witness ==
    \E r, p \in Slots :
        /\ req[r].pc = "done" /\ req[r].op = "delete" /\ req[r].status = 403
        /\ req[r].current_user.roles = USER_ADMIN
        /\ req[r].target # None
        /\ req[r].target.user_id # req[r].current_user.user_id
        /\ req[r].target.roles = USER_ADMIN
        /\ req[p].pc = "done" /\ req[p].op = "update" /\ req[p].status = 403
        /\ req[p].current_user.roles = USER_ADMIN
        /\ req[p].target # None
        /\ req[p].target.user_id # req[p].current_user.user_id
        /\ req[p].target.roles = USER_ADMIN
        /\ users[req[r].user_id].is_active = TRUE

\* The same on a superadmin target.
C4_WitnessSuperadmin ==
    \E r \in Slots :
        /\ req[r].pc = "done" /\ req[r].op = "delete" /\ req[r].status = 403
        /\ req[r].current_user.roles = USER_ADMIN
        /\ req[r].target # None
        /\ is_superadmin(req[r].target)
        /\ users[req[r].user_id].is_active = TRUE

\* C5: a deactivate or update_fields request (with a field to update) of an
\* acting user that holds neither ADMIN nor SUPERADMIN, on a different existing
\* user, is answered 403 and writes nothing.
C5_PlainUserDeniedOnOthers ==
    [][\A r \in Slots :
         (/\ Handles(r)
          /\ Modifies(req'[r])
          /\ req[r].current_user.roles \cap PRIVILEGED = {}
          /\ req'[r].user_id \in DOMAIN users
          /\ req'[r].user_id # req[r].current_user.user_id)
         => Refused(r, 403)]_vars

C5_Witness ==
    \E r, p \in Slots :
        /\ req[r].pc = "done" /\ req[r].op = "delete" /\ req[r].status = 403
        /\ req[r].current_user.roles = USER_ONLY
        /\ req[r].target # None
        /\ req[r].target.roles = USER_ONLY
        /\ users[req[r].user_id].is_active = TRUE
        /\ req[p].pc = "done" /\ req[p].op = "update" /\ req[p].status = 403
        /\ req[p].current_user.roles = USER_ONLY
        /\ req[p].target # None

\* C6: a stored role set changes only in the write of a promote or revoke
\* request whose acting user holds SUPERADMIN and whose target is another user;
\* a promote or revoke of a caller without SUPERADMIN is answered 403, and of a
\* superadmin on its own id 400, both without a write.
C6_PrivilegeChangesSuperadminOnly ==
    [][/\ \A u \in DOMAIN users :
            users'[u].roles # users[u].roles
            => \E r \in Slots :
                 /\ Writes(r)
                 /\ req[r].op \in {"grant", "revoke"}
                 /\ req[r].user_id = u
                 /\ is_superadmin(req[r].current_user)
                 /\ is_superadmin(users[req[r].current_user.user_id])
                 /\ req[r].current_user.user_id # u
       /\ \A r \in Slots :
            (/\ Handles(r)
             /\ req'[r].op \in {"grant", "revoke"}
             /\ ~is_superadmin(req[r].current_user))
            => Refused(r, 403)
       /\ \A r \in Slots :
            (/\ Handles(r)
             /\ req'[r].op \in {"grant", "revoke"}
             /\ is_superadmin(req[r].current_user)
             /\ req'[r].user_id = req[r].current_user.user_id)
            => Refused(r, 400)]_vars

C6_Witness ==
    \E r, p \in Slots :
        /\ req[r].pc = "done" /\ req[r].op = "grant" /\ req[r].status = 200
        /\ is_superadmin(req[r].current_user)
        /\ req[r].user_id # req[r].current_user.user_id
        /\ users[req[r].user_id].roles = USER_ADMIN
        /\ req[p].pc = "done" /\ req[p].op = "grant" /\ req[p].status = 403
        /\ req[p].current_user.roles = USER_ADMIN

\* The roles of user u are still the ones the answered request q wrote.
AsSetBy(q, u) ==
    /\ q.pc = "done"
    /\ q.status = 200
    /\ q.user_id = u
    /\ users[u].roles = q.params.roles

\* C7: a promote of a plain user that is answered 200 leaves the user with
\* exactly {USER, ADMIN}, and a revoke of a {USER, ADMIN} user with {USER}; a
\* promote (revoke) by a superadmin handled while the target's roles are those
\* an answered promote (revoke) set is answered 409 and writes nothing.
C7_RepeatedPrivilegeChangeConflicts ==
    [][\A r \in Slots :
         /\ (/\ Writes(r) /\ req[r].op = "grant" /\ req'[r].status = 200
             /\ req[r].target.roles = USER_ONLY)
            => users'[req[r].user_id].roles = USER_ADMIN
         /\ (/\ Writes(r) /\ req[r].op = "revoke" /\ req'[r].status = 200
             /\ req[r].target.roles = USER_ADMIN)
            => users'[req[r].user_id].roles = USER_ONLY
         /\ \A op \in {"grant", "revoke"} :
              (/\ Handles(r)
               /\ req'[r].op = op
               /\ is_superadmin(req[r].current_user)
               /\ req'[r].user_id # req[r].current_user.user_id
               /\ \E p \in Slots \ {r} :
                    req[p].op = op /\ AsSetBy(req[p], req'[r].user_id))
              => Refused(r, 409)]_vars

C7_Witness ==
    \E r, p \in Slots :
        /\ req[p].op = "grant" /\ AsSetBy(req[p], req[r].user_id)
        /\ req[p].target.roles = USER_ONLY
        /\ users[req[r].user_id].roles = USER_ADMIN
        /\ req[r].pc = "done" /\ req[r].op = "grant" /\ req[r].status = 409
        /\ is_superadmin(req[r].current_user)

C7_WitnessRevoke ==
    \E r, p \in Slots :
        /\ req[p].op = "revoke" /\ AsSetBy(req[p], req[r].user_id)
        /\ req[p].target.roles = USER_ADMIN
        /\ users[req[r].user_id].roles = USER_ONLY
        /\ req[r].pc = "done" /\ req[r].op = "revoke" /\ req[r].status = 409
        /\ is_superadmin(req[r].current_user)

\* C8 (as claimed): a promote or revoke request of a superadmin for an id that
\* no row has is answered 404.
C8_UnknownTargetIsNotFound ==
    \A r \in Slots :
        LET q == req[r]
        IN  (/\ q.pc = "done"
             /\ q.op \in {"grant", "revoke"}
             /\ is_superadmin(q.current_user)
             /\ q.user_id \notin DOMAIN users)
            => q.status = 404

\* C9: the write of a deactivate request (its acting user passed the permission
\* check) on a row that is already inactive is answered 404 and leaves the
\* table, and so the inactive row, as it was.
C9_DeactivateInactiveIsNotFound ==
    [][\A r \in Slots :
         (/\ Writes(r)
          /\ req[r].op = "delete"
          /\ users[req[r].user_id].is_active = FALSE)
         => /\ Refused(r, 404)
            /\ users'[req[r].user_id].is_active = FALSE]_vars

C9_Witness ==
    \E r \in Slots :
        /\ req[r].pc = "done"
        /\ req[r].op = "delete"
        /\ req[r].target # None
        /\ req[r].status = 404
        /\ users[req[r].user_id].is_active = FALSE

\* C10 (as claimed): the write of a deactivate, update_fields, promote or revoke
\* request on a row that is inactive at that moment is answered 404 and leaves
\* the table as it was.
C10_InactiveAtWriteIsNotFound ==
    [][\A r \in Slots :
         (/\ Writes(r)
          /\ users[req[r].user_id].is_active = FALSE)
         => Refused(r, 404)]_vars

\* A registration is answered in this step.
Registers == created' # created \/ DOMAIN users' # DOMAIN users

\* C11: a registration that is answered 200 adds exactly one row, whose roles
\* are exactly {USER} and whose is_active is true, returns its id, and leaves
\* every row that was there before as it was.
C11_RegistrationCreatesPlainActiveUser ==
    [][(Registers /\ created'.status = 200)
       => \E n \in created'.ret :
            /\ created'.ret = {n}
            /\ n \notin DOMAIN users
            /\ DOMAIN users' = DOMAIN users \cup {n}
            /\ users'[n].roles = USER_ONLY
            /\ users'[n].is_active = TRUE
            /\ \A u \in DOMAIN users : users'[u] = users[u]]_vars

C11_Witness ==
    /\ created.status = 200
    /\ \E n \in created.ret :
         /\ n \in DOMAIN users
         /\ n > NumSeed
         /\ users[n].roles = USER_ONLY
         /\ users[n].is_active = TRUE

\* C12: in every reachable state every stored row's role set contains USER
\* (the table starts with rows that hold USER; register, deactivate,
\* update_fields, promote and revoke keep it so).
C12_EveryUserHoldsUser ==
    \A u \in DOMAIN users : ROLE_PORTAL_USER \in users[u].roles

C12_Witness ==
    \E r, p \in Slots :
        /\ req[r].pc = "done" /\ req[r].op = "revoke" /\ req[r].status = 200
        /\ req[r].target.roles = USER_ADMIN
        /\ req[p].pc = "done" /\ req[p].op = "grant" /\ req[p].status = 200
        /\ req[p].user_id # req[r].user_id
        /\ users[req[r].user_id].roles = USER_ONLY
        /\ users[req[p].user_id].roles = USER_ADMIN

\* C19: no step deactivates a row that holds SUPERADMIN or takes SUPERADMIN
\* from it, whoever acts (a plain user, an admin, another superadmin, the
\* superadmin itself) and however the requests interleave.
C19_SuperadminNeverDeactivated ==
    [][\A u \in DOMAIN users :
         is_superadmin(users[u])
         => /\ is_superadmin(users'[u])
            /\ users'[u].is_active = TRUE]_vars

C19_Witness ==
    \E r, p \in Slots :
        /\ req[r].pc = "done" /\ req[r].op = "delete" /\ req[r].status = 403
        /\ req[r].current_user.roles = USER_ADMIN
        /\ req[p].pc = "done" /\ req[p].op = "delete" /\ req[p].status = 406
        /\ is_superadmin(req[p].current_user)
        /\ req[p].user_id = req[r].user_id
        /\ req[p].user_id = req[p].current_user.user_id
        /\ is_superadmin(users[req[r].user_id])
        /\ users[req[r].user_id].is_active = TRUE

\* What the caller of a login sees of its answer.
Outward(l) == [status |-> l.status, detail |-> l.detail, body |-> l.body]

\* C13: a login that fails because no row has the email and a login that fails
\* because the password is wrong are answered alike (same status, same detail),
\* neither answer carries a token, and every token that was made was returned
\* by a login that did not fail.
C13_LoginFailuresIndistinguishable ==
    /\ \A l, m \in Logins :
         (/\ login[l].pc = "done" /\ login[l].cause = "unknown email"
          /\ login[m].pc = "done" /\ login[m].cause = "wrong password")
         => /\ Outward(login[l]) = Outward(login[m])
            /\ login[l].status = 401
            /\ login[l].body = None
            /\ login[m].body = None
    /\ \A tk \in issued :
         \E l \in Logins :
            /\ login[l].pc = "done"
            /\ login[l].cause = "none"
            /\ login[l].body # None
            /\ login[l].body.access_token = tk.token

C13_Witness ==
    \E l, m \in Logins :
        /\ login[l].pc = "done" /\ login[l].cause = "unknown email"
        /\ login[l].status = 401
        /\ login[m].pc = "done" /\ login[m].cause = "wrong password"
        /\ login[m].status = 401
        /\ login[m].username \in {users[u].email : u \in DOMAIN users}

\* Slot r's request arrives in this step: its bearer token is validated.
Arrives(r) == req[r].pc = "idle" /\ req'[r].pc # "idle"

\* C14 (as claimed): a token made at time iat with a ttl of T >= 1 minutes for
\* the email of an existing user is accepted at every time now < iat + T and
\* answered 401 at every time now >= iat + T.  (A ttl of zero is C16's case.)
C14_TokenValidUntilExpiry ==
    [][\A r \in Slots : \A tk \in issued :
         (/\ Arrives(r)
          /\ req'[r].token = tk.token
          /\ tk.expires_delta # None
          /\ tk.expires_delta.minutes >= 1
          /\ DAL_get_user_by_email(users, tk.token.claims.sub) # {})
         => /\ now < tk.iat + tk.expires_delta.minutes
               => /\ req'[r].pc = "handler"
                  /\ req'[r].current_user # None
            /\ now >= tk.iat + tk.expires_delta.minutes
               => /\ req'[r].pc = "done"
                  /\ req'[r].status = 401]_vars

\* C16 (as claimed): the exp claim of a token is the time it was made at plus
\* the expires_delta it was made with, for every expires_delta that was passed,
\* zero included; the configured lifetime is used only when none was passed.
C16_ExpiryIsNowPlusTtl ==
    \A tk \in issued :
        tk.token.claims.exp =
            tk.iat + (IF tk.expires_delta = None
                      THEN ACCESS_TOKEN_EXPIRE_MINUTES
                      ELSE tk.expires_delta.minutes)

\* C15 (as claimed): the write of an update_fields request that violates the
\* store's integrity (the new email is held by another row) is answered 503, as
\* a registration is, and leaves the table as it was.
C15_UpdateIntegrityViolationIsServiceUnavailable ==
    [][\A r \in Slots :
         (/\ Writes(r)
          /\ req[r].op = "update"
          /\ DAL_update_user(users, req[r].user_id, req[r].params).error)
         => Refused(r, 503)]_vars

\* C17 (as claimed): the write of a deactivate or update_fields request whose
\* acting user holds ADMIN and not SUPERADMIN, on a different user whose row
\* holds ADMIN when the write is applied, changes nothing and is not answered
\* 200.
C17_AdminWriteNeverLandsOnAdmin ==
    [][\A r \in Slots :
         (/\ Writes(r)
          /\ Modifies(req[r])
          /\ is_admin(req[r].current_user)
          /\ ~is_superadmin(req[r].current_user)
          /\ req[r].user_id # req[r].current_user.user_id
          /\ is_admin(users[req[r].user_id]))
         => /\ users' = users
            /\ req'[r].status # 200]_vars

\* C18 (as claimed): a request that arrives with a bearer token a login
\* returned before is either answered 401 or runs as the user, by id, that
\* logged in, whatever registrations and email changes came in between.
C18_TokenAuthenticatesItsAccountOnly ==
    [][\A r \in Slots : \A tk \in issued :
         (/\ Arrives(r)
          /\ req'[r].token = tk.token)
         => \/ /\ req'[r].pc = "done"
               /\ req'[r].status = 401
            \/ /\ req'[r].pc = "handler"
               /\ req'[r].current_user.user_id = tk.user_id]_vars

====
